---- MODULE Spec2Model ----
(***************************************************************************)
(* RobloxAPIClient: the avatar-URL client of the dashboard frontend        *)
(* (src/frontend/src/components/sentiment-analyzer/SentimentAnalyzer.tsx,  *)
(* lines 152-364).  The client keeps an in-memory cache of avatar URLs     *)
(* with a time-to-live, mirrors it in localStorage, and coalesces          *)
(* concurrent lookups of one user id into one backend request.             *)
(*                                                                         *)
(* JavaScript runs the client on one event loop.  A macrotask is a call of *)
(* a public method, the arrival of an HTTP response, or the passage of     *)
(* time; the promise reactions a macrotask queues (microtasks) run before  *)
(* the next macrotask starts.  The continuation of fetchAvatarUrl and the  *)
(* .finally callback of getAvatarHeadshotUrl are two such reactions, so    *)
(* they are two actions (Settle, Cleanup) and no macrotask runs in between.*)
(***************************************************************************)
EXTENDS Integers, Sequences, FiniteSets, TLC

(***************************************************************************)
(* Bounds of the model.                                                    *)
(***************************************************************************)
MaxCalls == 2        \* getAvatarHeadshotUrl calls that return one promise
MaxFetches == 3      \* fetchAvatarUrl promises the model keeps track of
MaxTime == 1         \* last value of Date.now(), in hours
MaxMessages == 2     \* messages the useSentiment hook is asked to analyze
MaxPlayers == 2      \* players in the Roblox game
MaxQueued == 2       \* flagged messages the moderation queue is loaded with

(***************************************************************************)
(* JavaScript values.  A user id is null, undefined, a number or a string; *)
(* a string is a sequence of characters over a small alphabet.             *)
(***************************************************************************)
NULL == "null"             \* the result null of a lookup
PENDING == "pending"       \* a promise that has not settled
REJECTED == "rejected"     \* a promise that settled with an exception

JsNull == [t |-> "null", s |-> <<>>, n |-> 0]
JsUndefined == [t |-> "undefined", s |-> <<>>, n |-> 0]
JsStr(chars) == [t |-> "string", s |-> chars, n |-> 0]
JsNum(i) == [t |-> "number", s |-> <<>>, n |-> i]

DigitChars == <<"0", "1", "2", "3", "4", "5", "6", "7", "8", "9">>

DigitValue(c) == (CHOOSE i \in 1..10 : DigitChars[i] = c) - 1

IsDigit(c) == \E i \in 1..10 : DigitChars[i] = c

RECURSIVE NatToChars(_)
NatToChars(i) ==
    IF i < 10 THEN <<DigitChars[i + 1]>>
    ELSE Append(NatToChars(i \div 10), DigitChars[(i % 10) + 1])

\* String(userId) for the id types the client accepts
ToJsString(v) ==
    CASE v.t = "null" -> <<"n", "u", "l", "l">>
      [] v.t = "undefined" -> <<"u", "n", "d", "e", "f", "i", "n", "e", "d">>
      [] v.t = "string" -> v.s
      [] v.t = "number" -> IF v.n < 0 THEN <<"-">> \o NatToChars(0 - v.n)
                           ELSE NatToChars(v.n)

RECURSIVE TrimStart(_)
TrimStart(chars) ==
    IF chars # <<>> /\ Head(chars) = " " THEN TrimStart(Tail(chars)) ELSE chars

RECURSIVE TrimEnd(_)
TrimEnd(chars) ==
    IF chars # <<>> /\ chars[Len(chars)] = " "
    THEN TrimEnd(SubSeq(chars, 1, Len(chars) - 1))
    ELSE chars

\* String.prototype.trim
Trim(chars) == TrimEnd(TrimStart(chars))

RECURSIVE DigitsToNat(_)
DigitsToNat(chars) ==
    IF chars = <<>> THEN 0
    ELSE 10 * DigitsToNat(SubSeq(chars, 1, Len(chars) - 1))
         + DigitValue(chars[Len(chars)])

AllDigits(chars) == chars # <<>> /\ \A i \in 1..Len(chars) : IsDigit(chars[i])

NaN == [nan |-> TRUE, v |-> 0]
Finite(i) == [nan |-> FALSE, v |-> i]

\* Number(string): surrounding blanks are dropped, the empty string is 0, an
\* optionally signed run of decimal digits is its value, anything else NaN
StringToNumber(chars) ==
    LET body == Trim(chars) IN
    IF body = <<>> THEN Finite(0)
    ELSE IF Head(body) = "-" /\ AllDigits(Tail(body))
         THEN Finite(0 - DigitsToNat(Tail(body)))
    ELSE IF AllDigits(body) THEN Finite(DigitsToNat(body))
    ELSE NaN

\* Number(userId)
ToJsNumber(v) ==
    CASE v.t = "null" -> Finite(0)
      [] v.t = "undefined" -> NaN
      [] v.t = "string" -> StringToNumber(v.s)
      [] v.t = "number" -> Finite(v.n)

\* the guard with Number(userId) < 0 in place of Number(userId) <= 0
IsInvalidUserId_ZeroAccepted(userId) ==
    \/ userId = JsNull
    \/ userId = JsUndefined
    \/ Trim(ToJsString(userId)) = <<>>
    \/ LET num == ToJsNumber(userId) IN ~num.nan /\ num.v < 0

\* the guard at the head of getAvatarHeadshotUrl
IsInvalidUserId(userId) ==
    \/ userId = JsNull
    \/ userId = JsUndefined
    \/ Trim(ToJsString(userId)) = <<>>
    \/ LET num == ToJsNumber(userId) IN ~num.nan /\ num.v <= 0

(***************************************************************************)
(* The inputs of the model.                                                *)
(***************************************************************************)
InvalidIds ==
    { JsNull, JsUndefined, JsStr(<<" ">>), JsStr(<<"0">>),
      JsStr(<<"-", "5">>), JsNum(0) }

ValidIds == { JsStr(<<"5">>), JsNum(5), JsStr(<<"7">>) }

UserIds == InvalidIds \cup ValidIds

Urls == {"u1", "u2"}

\* the responses of the backend proxy to GET /roblox-avatar?userId=<key>:
\* status 0 is a request that failed without a response (network failure),
\* hasUrl says whether the body carries a string field imageUrl
Responses ==
    { [status |-> 200, hasUrl |-> TRUE, imageUrl |-> u] : u \in Urls }
    \cup { [status |-> 200, hasUrl |-> FALSE, imageUrl |-> NULL],
           [status |-> 404, hasUrl |-> FALSE, imageUrl |-> NULL],
           [status |-> 500, hasUrl |-> FALSE, imageUrl |-> NULL],
           [status |-> 0, hasUrl |-> FALSE, imageUrl |-> NULL] }

NoResponse == [status |-> 0 - 1, hasUrl |-> FALSE, imageUrl |-> NULL]

(***************************************************************************)
(* The state of the client and of its environment.                         *)
(***************************************************************************)
VARIABLES
    now,                  \* Date.now()
    avatarCache,          \* this.avatarCache: key -> [url, timestamp]
    pendingRequests,      \* this.pendingRequests: key -> promise (a fetch id)
    storage,              \* localStorage item 'robloxAvatarCache'
    quota,                \* number of entries localStorage has room for
    fetches,              \* the fetchAvatarUrl calls, by fetch id
    lastCall,             \* the call made, or the result delivered, in the last step
    clearedInFlight,      \* keys cleared while their request was in flight
    \* the useSentiment hook and the moderation backend it polls
    isLoading,            \* useState isLoading
    hookResult,           \* useState result
    hookError,            \* useState error
    moderationPending,    \* useState moderationPending
    analysing,            \* message ids whose POST /analyze is outstanding
    polls,                \* the pollModerationStatus closures, by message id
    moderation,           \* the backend's moderation_action, by message id
    nextMessageId,        \* the next message id the api wrapper generates
    \* the Roblox webhook and the game it runs in
    inGame,               \* the players in the game
    kickMessage,          \* the message each player was removed with
    warned,               \* the players a warning was issued for
    lastFetch,            \* the last FetchFromMessage call and what it returned
    \* the moderation queue page and the backend's list of flagged messages
    queueItems,           \* useState queueItems
    loading,              \* useState loading
    queueError,           \* useState error
    processingActions,    \* useState processingActions
    successMessage,       \* useState successMessage
    successTimers,        \* pending setTimeout(() => setSuccessMessage(null))
    reviews,              \* the reviewMessage calls outstanding, by message id
    flagged               \* the message ids the backend lists as flagged

clientVars == <<now, avatarCache, pendingRequests, storage, quota, fetches,
                lastCall, clearedInFlight>>

hookVars == <<isLoading, hookResult, hookError, moderationPending, analysing,
              polls, moderation, nextMessageId>>

webhookVars == <<inGame, kickMessage, warned, lastFetch>>

queueVars == <<queueItems, loading, queueError, processingActions,
               successMessage, successTimers, reviews, flagged>>

vars == <<clientVars, hookVars, webhookVars, queueVars>>

\* this.cacheExpirationTime: the client is constructed without the argument
\* cacheExpirationTimeMs, so the field keeps its initial value 60 * 60 * 1000
\* ms; the model counts time in hours
cacheExpirationTime == 1

\* Date.now() when the client is constructed, the origin of the model's time
StartTime == 0

(***************************************************************************)
(* Map helpers: a Map is a function whose DOMAIN is its key set.           *)
(***************************************************************************)
EmptyMap == [k \in {} |-> 0]

MapSet(m, key, value) ==
    [k \in DOMAIN m \cup {key} |-> IF k = key THEN value ELSE m[k]]

MapDelete(m, key) == [k \in DOMAIN m \ {key} |-> m[k]]

(***************************************************************************)
(* localStorage.  The item is absent, or a string that is not JSON, or the *)
(* JSON text of an object; the text of an object is modelled as the        *)
(* sequence of its members in the order JSON.stringify writes them.        *)
(***************************************************************************)
NoItem == [kind |-> "none", members |-> <<>>]
CorruptItem == [kind |-> "corrupt", members |-> <<>>]
JsonItem(members) == [kind |-> "json", members |-> members]

\* keys of the model are decimal integers, which an object enumerates in
\* ascending numeric order
RECURSIVE MembersOf(_, _)
MembersOf(cache, keys) ==
    IF keys = {} THEN <<>>
    ELSE LET first == CHOOSE k \in keys :
                         \A other \in keys :
                             StringToNumber(k).v <= StringToNumber(other).v
         IN <<[key |-> first, url |-> cache[first].url,
               timestamp |-> cache[first].timestamp]>>
            \o MembersOf(cache, keys \ {first})

\* JSON.stringify(cacheData) in saveCacheToStorage
JsonStringify(cache) == JsonItem(MembersOf(cache, DOMAIN cache))

\* JSON.parse(cacheData): the entries of the object, a later member of the
\* same key replacing an earlier one
RECURSIVE JsonParse(_)
JsonParse(members) ==
    IF members = <<>> THEN EmptyMap
    ELSE LET last == members[Len(members)] IN
         LET rest == JsonParse(SubSeq(members, 1, Len(members) - 1)) IN
         MapSet(rest, last.key, [url |-> last.url, timestamp |-> last.timestamp])

\* localStorage.setItem throws (QuotaExceededError) when the text does not
\* fit into the room the origin has left
SetItemThrows(cache, room) == Cardinality(DOMAIN cache) > room

\* saveCacheToStorage without its try/catch: the exception of setItem
\* reaches the caller
SaveEscapes_Uncaught(cache, room) == SetItemThrows(cache, room)

\* whether saveCacheToStorage throws: its body is one try block whose catch
\* logs the exception
SaveEscapes(cache, room) == FALSE

\* saveCacheToStorage writing only the entries that have not expired
SaveCacheToStorage_OnlyValid(cache, item, room) ==
    IF SetItemThrows(cache, room) THEN item
    ELSE LET valid == { k \in DOMAIN cache :
                           now - cache[k].timestamp < cacheExpirationTime }
         IN JsonItem(MembersOf(cache, valid))

\* saveCacheToStorage: the item becomes the text of the cache; an exception
\* of setItem is caught and logged, and the item stays as it was
SaveCacheToStorage(cache, item, room) ==
    IF SetItemThrows(cache, room) THEN item ELSE JsonStringify(cache)

\* loadCacheFromStorage with <= in place of <
LoadCacheFromStorage_Inclusive(item, t, ttl) ==
    IF item.kind = "json"
    THEN LET parsedCache == JsonParse(item.members) IN
         [k \in {key \in DOMAIN parsedCache :
                    t - parsedCache[key].timestamp <= ttl} |-> parsedCache[k]]
    ELSE EmptyMap

\* loadCacheFromStorage at time t: the unexpired entries of the stored object
LoadCacheFromStorage(item, t, ttl) ==
    IF item.kind = "json"
    THEN LET parsedCache == JsonParse(item.members) IN
         [k \in {key \in DOMAIN parsedCache :
                    t - parsedCache[key].timestamp < ttl} |-> parsedCache[k]]
    ELSE EmptyMap

\* isCacheValid with the comparison turned round
IsCacheValid_Inverted(entry) == now - entry.timestamp > cacheExpirationTime

\* isCacheValid with <= in place of <
IsCacheValid_Inclusive(entry) == now - entry.timestamp <= cacheExpirationTime

\* isCacheValid
IsCacheValid(entry) == now - entry.timestamp < cacheExpirationTime

\* the room localStorage may have, in entries: none (every setItem throws),
\* too little for the two keys of the model, or enough
Quotas == {0, 1, 2}

\* what localStorage may hold when the client is constructed: nothing, a
\* text that is no JSON, or the cache of an earlier session with an entry
\* that has just expired and one written this very hour
InitialItems ==
    { NoItem, CorruptItem,
      JsonItem(<<[key |-> <<"5">>, url |-> "u2",
                  timestamp |-> StartTime - cacheExpirationTime],
                 [key |-> <<"7">>, url |-> "u1", timestamp |-> StartTime]>>) }

\* lastCall when the last step was no call of a public method and delivered
\* no result
NoCall == [kind |-> "none", key |-> <<>>, fetch |-> 0, result |-> NULL,
           callers |-> 0, cleared |-> "no", retryOf |-> 0 - 1,
           numeric |-> FALSE, afterClear |-> FALSE]

\* an unused fetch id, and the fetch a call of fetchAvatarUrl(key) starts
NoFetch == [key |-> <<>>, state |-> "free", response |-> NoResponse,
            value |-> PENDING, callers |-> 0, result |-> PENDING]

NewFetch(key) == [key |-> key, state |-> "inflight", response |-> NoResponse,
                  value |-> PENDING, callers |-> 1, result |-> PENDING]

(***************************************************************************)
(* The pages and the webhook that run next to the client.  Each starts in  *)
(* the state its construction leaves, and each is explored under its own   *)
(* specification while the others rest.                                    *)
(***************************************************************************)
UNDEFINED == "undefined"   \* an absent field of a JSON object

MessageIds == 1..MaxMessages

\* data.message_id of a response that carries none
NoMessageId == 0

\* result === null
NullResult == [null |-> TRUE]

\* useSentiment(): the four useState initial values
HookStart ==
    /\ isLoading = FALSE
    /\ hookResult = NullResult
    /\ hookError = NULL
    /\ moderationPending = FALSE
    /\ analysing = {}
    /\ polls = EmptyMap
    /\ moderation = EmptyMap
    /\ nextMessageId = 1

Players == 1..MaxPlayers

\* the player was not kicked
NoKick == [kind |-> "none"]

\* FetchFromMessage was not called
NoFetchCall == [kind |-> "none"]

\* the game with its players, before any chat message
WebhookStart ==
    /\ inGame = Players
    /\ kickMessage = EmptyMap
    /\ warned = {}
    /\ lastFetch = NoFetchCall

QueueIds == 1..MaxQueued

\* ModerationQueuePage mounted: the useState initial values, and the
\* fetchQueueItems call of useEffect outstanding (loading is true exactly
\* while a getFlaggedMessages call is outstanding)
QueueStart ==
    /\ queueItems = <<>>
    /\ loading = TRUE
    /\ queueError = NULL
    /\ processingActions = {}
    /\ successMessage = NULL
    /\ successTimers = 0
    /\ reviews = EmptyMap
    /\ flagged = QueueIds

\* the constructor
Init ==
    /\ HookStart
    /\ WebhookStart
    /\ QueueStart
    /\ now = StartTime
    /\ storage \in InitialItems
    /\ avatarCache = LoadCacheFromStorage(storage, now, cacheExpirationTime)
    /\ pendingRequests = EmptyMap
    /\ quota \in Quotas
    /\ fetches = [f \in 1..MaxFetches |-> NoFetch]
    /\ lastCall = NoCall
    /\ clearedInFlight = {}

(***************************************************************************)
(* Promises.  A fetch is one call of fetchAvatarUrl together with the      *)
(* promise requestPromise = fetchAvatarUrl(..).finally(..) built on it:    *)
(*   "inflight"  the GET is outstanding,                                   *)
(*   "fetched"   fetchAvatarUrl has returned, the .finally callback is     *)
(*               queued as a microtask,                                    *)
(*   "settled"   the callback has run and requestPromise has settled.      *)
(* Its record holds the cache key, the response of the backend, the value  *)
(* fetchAvatarUrl returned, the number of getAvatarHeadshotUrl calls that  *)
(* await requestPromise, and what requestPromise settled with.  The record *)
(* of a settled fetch is kept until the next fetch of its key starts,      *)
(* which takes its id.                                                     *)
(***************************************************************************)
FetchIds == 1..MaxFetches

Live(f) == fetches[f].state # "free"

Outstanding(key) ==
    { f \in FetchIds : fetches[f].key = key /\ fetches[f].state = "inflight" }

MicrotasksQueued == \E f \in FetchIds : fetches[f].state = "fetched"

\* the ids a new fetch of a key may take: that of the key's settled fetch,
\* else the lowest free one
NewFetchIds(key) ==
    LET old == { f \in FetchIds : fetches[f].state = "settled"
                                     /\ fetches[f].key = key }
        free == { f \in FetchIds : ~Live(f) }
    IN IF old # {} THEN { CHOOSE f \in old : \A g \in old : f <= g }
       ELSE IF free # {} THEN { CHOOSE f \in free : \A g \in free : f <= g }
       ELSE {}

\* the record of a getAvatarHeadshotUrl call: the path it took, its cache
\* key (empty when the id was refused), the fetch whose promise it returned
\* (0: none), the value it returned at once, the one caller, what a
\* clearAvatarCache call of the same key made just before it dropped ("no":
\* there was none), and the status of the response to the key's previous
\* fetch (-1: there was none)
Call(userId, kind, key, fetch, result) ==
    [kind |-> kind, key |-> key, fetch |-> fetch, result |-> result,
     callers |-> 1, numeric |-> userId.t = "number", afterClear |-> FALSE,
     cleared |-> IF lastCall.kind = "clear" /\ lastCall.key = key
                 THEN lastCall.result ELSE "no",
     retryOf |-> IF \E f \in FetchIds : fetches[f].state = "settled"
                                          /\ fetches[f].key = key
                 THEN LET f == CHOOSE f \in FetchIds :
                                   fetches[f].state = "settled"
                                   /\ fetches[f].key = key
                      IN fetches[f].response.status
                 ELSE 0 - 1]

\* getAvatarHeadshotUrl without the test of the pending requests
HasPendingRequest_Never(userIdString) == FALSE

\* this.pendingRequests.has(userIdString)
HasPendingRequest(userIdString) == userIdString \in DOMAIN pendingRequests

\* getAvatarHeadshotUrl without this.pendingRequests.set
PendingAfterStart_NotRegistered(userIdString, f) == pendingRequests

\* this.pendingRequests.set(userIdString, requestPromise)
PendingAfterStart(userIdString, f) == MapSet(pendingRequests, userIdString, f)

\* getAvatarHeadshotUrl without the test of the cache
HasValidEntry_Never(userIdString) == FALSE

\* the test of the cache in getAvatarHeadshotUrl
HasValidEntry(userIdString) ==
    /\ userIdString \in DOMAIN avatarCache
    /\ IsCacheValid(avatarCache[userIdString])

\* getAvatarHeadshotUrl(userId)
GetAvatarHeadshotUrl(userId) ==
    /\ ~MicrotasksQueued
    /\ LET userIdString == ToJsString(userId) IN
       IF IsInvalidUserId(userId)
       THEN /\ lastCall' = Call(userId, "invalid", <<>>, 0, NULL)
            /\ UNCHANGED <<pendingRequests, fetches>>
       ELSE IF HasValidEntry(userIdString)
       THEN /\ lastCall' = Call(userId, "hit", userIdString, 0,
                                avatarCache[userIdString].url)
            /\ UNCHANGED <<pendingRequests, fetches>>
       ELSE IF HasPendingRequest(userIdString)
       THEN /\ fetches[pendingRequests[userIdString]].callers < MaxCalls
            /\ lastCall' = Call(userId, "coalesced", userIdString,
                                pendingRequests[userIdString], PENDING)
            /\ fetches' = [fetches EXCEPT
                              ![pendingRequests[userIdString]].callers = @ + 1]
            /\ UNCHANGED pendingRequests
       ELSE \E f \in NewFetchIds(userIdString) :
               /\ fetches' = [fetches EXCEPT ![f] = NewFetch(userIdString)]
               /\ pendingRequests' = PendingAfterStart(userIdString, f)
               /\ lastCall' = Call(userId, "started", userIdString, f, PENDING)
    /\ UNCHANGED <<now, avatarCache, storage, quota, clearedInFlight>>
    /\ UNCHANGED <<hookVars, webhookVars, queueVars>>

\* axios rejects a request that got no response (status 0) and, by its
\* default validateStatus, a response whose status is outside 2xx
AxiosThrows(response) == response.status \notin 200..299

\* the test without typeof response.data.imageUrl === 'string'
IsAvatarResponse_AnyBody(response) == response.status = 200

\* the test of the response in the try block of fetchAvatarUrl
IsAvatarResponse(response) == response.status = 200 /\ response.hasUrl

\* a catch block that logs and throws the error again
CatchResult_Rethrown(response) == REJECTED

\* the catch block of fetchAvatarUrl: it logs (a 404 apart from the other
\* errors) and returns null
CatchResult(response) == NULL

\* what the promise of fetchAvatarUrl settles with for a response
FetchAvatarUrlResult(response) ==
    IF AxiosThrows(response) THEN CatchResult(response)
    ELSE IF IsAvatarResponse(response) THEN response.imageUrl
    ELSE NULL

\* fetchAvatarUrl caching the answer to a 404 as well
FetchAvatarUrlCaches_NotFoundToo(response) ==
    \/ ~AxiosThrows(response) /\ IsAvatarResponse(response)
    \/ response.status = 404

\* fetchAvatarUrl returning the url without writing the cache
FetchAvatarUrlCaches_Never(response) == FALSE

\* whether fetchAvatarUrl writes the cache for a response
FetchAvatarUrlCaches(response) ==
    ~AxiosThrows(response) /\ IsAvatarResponse(response)

\* a cleanup that runs only when the fetch returned a url
PendingAfterSettle_OnlyOnSuccess(key, value) ==
    IF value \in Urls THEN MapDelete(pendingRequests, key) ELSE pendingRequests

\* the pending requests after the .finally callback of a fetch of key
PendingAfterSettle(key, value) == MapDelete(pendingRequests, key)

\* the continuation of fetchAvatarUrl when the GET of fetch f ends
Settle(f, response) ==
    /\ ~MicrotasksQueued
    /\ fetches[f].state = "inflight"
    /\ LET userIdString == fetches[f].key IN
       IF FetchAvatarUrlCaches(response)
       THEN /\ avatarCache' = MapSet(avatarCache, userIdString,
                                     [url |-> response.imageUrl,
                                      timestamp |-> now])
            /\ storage' = SaveCacheToStorage(avatarCache', storage, quota)
       ELSE UNCHANGED <<avatarCache, storage>>
    /\ fetches' = [fetches EXCEPT
                      ![f].state = "fetched",
                      ![f].response = response,
                      ![f].value =
                          IF /\ FetchAvatarUrlCaches(response)
                             /\ SaveEscapes(avatarCache', quota)
                          THEN CatchResult(response)
                          ELSE FetchAvatarUrlResult(response)]
    /\ lastCall' = NoCall
    /\ UNCHANGED <<now, pendingRequests, quota, clearedInFlight>>
    /\ UNCHANGED <<hookVars, webhookVars, queueVars>>

\* the .finally callback of fetch f, and the settling of requestPromise,
\* which delivers its value to every call that awaits it
Cleanup(f) ==
    /\ fetches[f].state = "fetched"
    /\ pendingRequests' = PendingAfterSettle(fetches[f].key, fetches[f].value)
    /\ fetches' = [fetches EXCEPT ![f].state = "settled",
                                  ![f].result = fetches[f].value,
                                  ![f].callers = 0]
    /\ lastCall' = [NoCall EXCEPT !.kind = "delivered",
                                  !.key = fetches[f].key,
                                  !.fetch = f,
                                  !.result = fetches[f].value,
                                  !.callers = fetches[f].callers,
                                  !.afterClear =
                                      fetches[f].key \in clearedInFlight]
    /\ clearedInFlight' = clearedInFlight \ {fetches[f].key}
    /\ UNCHANGED <<now, avatarCache, storage, quota>>
    /\ UNCHANGED <<hookVars, webhookVars, queueVars>>

\* what clearAvatarCache(userId) drops under the key of userId: the url of
\* a valid entry, "expired" for an entry past its time, "absent" for none
Dropped(userId) ==
    LET key == ToJsString(userId) IN
    IF userId = JsUndefined \/ key \notin DOMAIN avatarCache THEN "absent"
    ELSE IF IsCacheValid(avatarCache[key]) THEN avatarCache[key].url
    ELSE "expired"

\* clearAvatarCache deleting under userId itself, not under String(userId)
CacheAfterClear_RawKey(userId) ==
    IF userId = JsUndefined THEN EmptyMap
    ELSE IF userId.t = "string" THEN MapDelete(avatarCache, userId.s)
    ELSE avatarCache

\* clearAvatarCache clearing the whole cache whatever its argument
CacheAfterClear_All(userId) == EmptyMap

\* the cache after clearAvatarCache(userId)
CacheAfterClear(userId) ==
    IF userId # JsUndefined
    THEN MapDelete(avatarCache, ToJsString(userId))
    ELSE EmptyMap

\* clearAvatarCache dropping the pending requests along with the entries
PendingAfterClear_Dropped(userId) ==
    IF userId # JsUndefined
    THEN MapDelete(pendingRequests, ToJsString(userId))
    ELSE EmptyMap

\* the pending requests after clearAvatarCache(userId): the method has no
\* statement that touches this.pendingRequests
PendingAfterClear(userId) == pendingRequests

\* clearAvatarCache aborting the requests in flight for the keys it clears
FetchesAfterClear_Aborted(userId) ==
    [f \in FetchIds |->
        IF /\ fetches[f].state = "inflight"
           /\ userId # JsUndefined => fetches[f].key = ToJsString(userId)
        THEN NoFetch ELSE fetches[f]]

\* the requests after clearAvatarCache(userId): the method holds no handle
\* of a request and the client passes no AbortSignal to axios
FetchesAfterClear(userId) == fetches

\* clearAvatarCache(userId); JsUndefined is the call without an argument
ClearAvatarCache(userId) ==
    /\ ~MicrotasksQueued
    /\ avatarCache' = CacheAfterClear(userId)
    /\ pendingRequests' = PendingAfterClear(userId)
    /\ fetches' = FetchesAfterClear(userId)
    /\ storage' = SaveCacheToStorage(avatarCache', storage, quota)
    /\ lastCall' = [NoCall EXCEPT
                       !.kind = "clear",
                       !.key = IF userId # JsUndefined THEN ToJsString(userId)
                               ELSE <<>>,
                       !.result = Dropped(userId),
                       !.numeric = userId.t = "number"]
    /\ clearedInFlight' =
          clearedInFlight
          \cup { fetches[f].key : f \in
                   { g \in FetchIds :
                        /\ fetches[g].state = "inflight"
                        /\ userId # JsUndefined
                              => fetches[g].key = ToJsString(userId) } }
    /\ UNCHANGED <<now, quota>>
    /\ UNCHANGED <<hookVars, webhookVars, queueVars>>

\* time passes
Tick ==
    /\ ~MicrotasksQueued
    /\ now < MaxTime
    /\ now' = now + 1
    /\ lastCall' = NoCall
    /\ UNCHANGED <<avatarCache, pendingRequests, storage, quota, fetches,
                   clearedInFlight>>
    /\ UNCHANGED <<hookVars, webhookVars, queueVars>>

ClearArgs == {JsUndefined, JsStr(<<"5">>), JsNum(5), JsStr(<<"7">>)}

Next ==
    \/ \E userId \in UserIds : GetAvatarHeadshotUrl(userId)
    \/ \E f \in FetchIds, response \in Responses : Settle(f, response)
    \/ \E f \in FetchIds : Cleanup(f)
    \/ \E userId \in ClearArgs : ClearAvatarCache(userId)
    \/ Tick

Spec == Init /\ [][Next]_vars

\* the microtask queue is drained before the event loop takes its next
\* task, so a queued .finally callback runs
LiveSpec == Spec /\ WF_vars(\E f \in FetchIds : Cleanup(f))

\* the backend answers every request: the GET in flight for a key ends,
\* although the callbacks of the other key's fetches run in between.  No
\* step reads localStorage after the constructor, so the room it has does
\* not bear on the requests, and this specification gives it room enough
BackendInit == Init /\ quota = 2

BackendSpec ==
    /\ BackendInit
    /\ [][Next]_vars
    /\ WF_vars(\E f \in FetchIds : Cleanup(f))
    /\ \A userId \in {JsStr(<<"5">>), JsStr(<<"7">>)} :
          SF_vars(\E f \in FetchIds, response \in Responses :
                     fetches[f].key = ToJsString(userId) /\ Settle(f, response))

(***************************************************************************)
(* Properties.                                                             *)
(***************************************************************************)
Keys == { ToJsString(userId) : userId \in ValidIds }

\* the backend requests of a key that the step sends
Sent(key) == Outstanding(key)' \ Outstanding(key)

\* C1: a call for a valid id that finds no valid cache entry starts one
\* backend request if none is outstanding for its key and otherwise starts
\* none and returns the promise of the outstanding one, and the settlement
\* of a request delivers its one result, a url or null, to every call that
\* awaits it, so the N calls made before the request settles share one
\* request and one result
C1_ConcurrentCallsShareOneRequest ==
    [][/\ \A userId \in ValidIds :
             LET key == ToJsString(userId) IN
             (/\ lastCall'.kind \in {"invalid", "hit", "coalesced", "started"}
              /\ lastCall'.numeric = (userId.t = "number")
              /\ ~HasValidEntry(key)
              /\ GetAvatarHeadshotUrl(userId))
             => IF Outstanding(key) = {}
                THEN /\ Cardinality(Sent(key)) = 1
                     /\ lastCall'.fetch \in Sent(key)
                     /\ fetches'[lastCall'.fetch].callers = 1
                ELSE /\ Sent(key) = {}
                     /\ Outstanding(key)' = Outstanding(key)
                     /\ lastCall'.fetch \in Outstanding(key)
                     /\ fetches'[lastCall'.fetch].callers
                           = fetches[lastCall'.fetch].callers + 1
       /\ \A f \in FetchIds :
             (fetches[f].state = "fetched" /\ fetches'[f].state = "settled")
             => /\ lastCall'.kind = "delivered"
                /\ lastCall'.fetch = f
                /\ lastCall'.callers = fetches[f].callers
                /\ lastCall'.callers >= 1
                /\ lastCall'.result = fetches'[f].result
                /\ lastCall'.result \in Urls \cup {NULL}]_vars

\* one request delivered its url to the two calls that awaited it
C1_Witness ==
    /\ lastCall.kind = "delivered"
    /\ lastCall.callers = 2
    /\ lastCall.result \in Urls
    /\ fetches[lastCall.fetch].result = lastCall.result

\* C2: at most one backend request per cache key is outstanding
C2_OneOutstandingPerKey ==
    \A key \in Keys : Cardinality(Outstanding(key)) <= 1

\* a request is outstanding for each key, one of them sent for a key whose
\* expired entry is still in the cache
C2_Witness ==
    /\ \A key \in Keys : Cardinality(Outstanding(key)) = 1
    /\ \E key \in Keys : key \in DOMAIN avatarCache

\* C3: a call with an invalid id returns null and leaves the cache, the
\* pending requests, localStorage and the backend requests as they were
C3_InvalidIdIsRefused ==
    [][\A userId \in InvalidIds :
          (/\ lastCall'.kind \in {"invalid", "hit", "coalesced", "started"}
           /\ lastCall'.numeric = (userId.t = "number")
           /\ GetAvatarHeadshotUrl(userId))
          => /\ lastCall'.kind = "invalid"
             /\ lastCall'.result = NULL
             /\ UNCHANGED <<avatarCache, pendingRequests, storage, fetches>>]_vars

\* an invalid id was refused while a request was outstanding and an entry
\* was cached
C3_Witness ==
    /\ lastCall.kind = "invalid"
    /\ lastCall.result = NULL
    /\ DOMAIN pendingRequests # {}
    /\ DOMAIN avatarCache # {}

\* C4: when the last fetch of a key succeeded with url u and its entry is
\* still cached and younger than the expiration time, a call for the key
\* returns u and sends no backend request
C4_HitWithinTtl ==
    [][\A userId \in ValidIds, f \in FetchIds :
          LET key == ToJsString(userId) IN
          (/\ fetches[f].state = "settled"
           /\ fetches[f].key = key
           /\ fetches[f].result \in Urls
           /\ key \in DOMAIN avatarCache
           /\ now - avatarCache[key].timestamp < cacheExpirationTime
           /\ GetAvatarHeadshotUrl(userId))
          => /\ lastCall'.kind = "hit"
             /\ lastCall'.result = fetches[f].result
             /\ fetches' = fetches
             /\ pendingRequests' = pendingRequests]_vars

\* a call was answered from the cache with the url of the key's last fetch
C4_Witness ==
    /\ lastCall.kind = "hit"
    /\ \E f \in FetchIds :
          /\ fetches[f].state = "settled"
          /\ fetches[f].key = lastCall.key
          /\ fetches[f].result = lastCall.result
          /\ lastCall.result \in Urls

\* C5: a call for a key whose cached entry has an age of the expiration
\* time or more, with no request of the key pending, is not answered from
\* the cache and sends exactly one backend request for the key
C5_ExpiredEntryIsRefetched ==
    [][\A userId \in ValidIds :
          LET key == ToJsString(userId) IN
          (/\ key \in DOMAIN avatarCache
           /\ now - avatarCache[key].timestamp >= cacheExpirationTime
           /\ key \notin DOMAIN pendingRequests
           /\ GetAvatarHeadshotUrl(userId))
          => /\ lastCall'.kind = "started"
             /\ lastCall'.result = PENDING
             /\ Cardinality(Sent(key)) = 1
             /\ lastCall'.retryOf # 0 - 1 => Cardinality(Outstanding(key)') = 1]_vars

\* the entry of key 5, which only a successful fetch at the start time can
\* have written, has just reached the expiration time and the call for the
\* key started a request
C5_Witness ==
    /\ lastCall.kind = "started"
    /\ lastCall.key = <<"5">>
    /\ lastCall.key \in DOMAIN avatarCache
    /\ avatarCache[lastCall.key].timestamp = StartTime
    /\ now - avatarCache[lastCall.key].timestamp = cacheExpirationTime

\* the original C6: after clearAvatarCache(id), a call for the id always
\* sends a backend request
C6_Original ==
    [][\A userId \in ValidIds :
          LET key == ToJsString(userId) IN
          (/\ lastCall.kind = "clear"
           /\ lastCall.key = key
           /\ GetAvatarHeadshotUrl(userId))
          => Cardinality(Sent(key)) = 1]_vars

\* C6: after clearAvatarCache(id) for a valid id, a call for the id sends
\* one backend request when no request of the key is pending, whatever entry
\* the clear dropped, and joins the pending request and sends none otherwise
C6_ClearedKeyIsRefetched ==
    [][\A userId \in ValidIds :
          LET key == ToJsString(userId) IN
          (/\ lastCall.kind = "clear"
           /\ lastCall.key = key
           /\ GetAvatarHeadshotUrl(userId))
          => IF key \notin DOMAIN pendingRequests
             THEN /\ lastCall'.kind = "started"
                  /\ Cardinality(Sent(key)) = 1
             ELSE /\ lastCall'.kind = "coalesced"
                  /\ lastCall'.fetch = pendingRequests[key]
                  /\ Sent(key) = {}]_vars

\* a call started a request right after the clear of its key had dropped an
\* entry that was still valid
C6_Witness ==
    /\ lastCall.kind = "started"
    /\ lastCall.cleared \in Urls
    /\ Cardinality(Outstanding(lastCall.key)) = 1

\* C7: when the backend answers 404, fetchAvatarUrl returns null and leaves
\* the cache as it was, the callers receive null, and a call for the key
\* made after that settlement starts a backend request
C7_NotFoundIsNotCached ==
    [][\A f \in FetchIds :
          /\ (/\ fetches[f].state = "inflight"
              /\ fetches'[f].state = "fetched"
              /\ fetches'[f].response.status = 404)
             => /\ fetches'[f].value = NULL
                /\ avatarCache' = avatarCache
          /\ (/\ fetches[f].state = "fetched"
              /\ fetches[f].response.status = 404
              /\ fetches'[f].state = "settled")
             => /\ fetches'[f].result = NULL
                /\ lastCall'.result = NULL
          /\ \A userId \in ValidIds :
                (/\ fetches[f].state = "settled"
                 /\ fetches[f].response.status = 404
                 /\ fetches[f].key = ToJsString(userId)
                 /\ GetAvatarHeadshotUrl(userId))
                => /\ lastCall'.kind = "started"
                   /\ Cardinality(Sent(fetches[f].key)) = 1]_vars

\* a call started a request for a key whose previous request had ended in
\* a 404
C7_Witness ==
    /\ lastCall.kind = "started"
    /\ lastCall.retryOf = 404
    /\ Cardinality(Outstanding(lastCall.key)) = 1

\* a response that is an error other than not-found: no response at all, a
\* status other than 200 and 404, or a 200 without a string imageUrl
IsOtherError(response) ==
    \/ response.status \notin {200, 404}
    \/ response.status = 200 /\ ~response.hasUrl

\* C8: when a request ends in an error other than not-found, fetchAvatarUrl
\* returns null and leaves the cache as it was, the callers receive null, and
\* a later call for the key starts a backend request
C8_ErrorIsNotCached ==
    [][\A f \in FetchIds :
          /\ (/\ fetches[f].state = "inflight"
              /\ fetches'[f].state = "fetched"
              /\ IsOtherError(fetches'[f].response))
             => /\ fetches'[f].value = NULL
                /\ avatarCache' = avatarCache
          /\ (/\ fetches[f].state = "fetched"
              /\ IsOtherError(fetches[f].response)
              /\ fetches'[f].state = "settled")
             => /\ fetches'[f].result = NULL
                /\ lastCall'.result = NULL
          /\ \A userId \in ValidIds :
                (/\ fetches[f].state = "settled"
                 /\ IsOtherError(fetches[f].response)
                 /\ fetches[f].key = ToJsString(userId)
                 /\ GetAvatarHeadshotUrl(userId))
                => /\ lastCall'.kind = "started"
                   /\ Cardinality(Sent(fetches[f].key)) = 1]_vars

\* a call started a request for a key whose previous request had got a 200
\* without an imageUrl, while the other key's last request had failed
\* without a response
C8_Witness ==
    /\ lastCall.kind = "started"
    /\ lastCall.retryOf = 200
    /\ lastCall.key \notin DOMAIN avatarCache
    /\ \E f \in FetchIds : /\ fetches[f].state = "settled"
                           /\ fetches[f].response.status = 0
                           /\ fetches[f].result = NULL

\* C9: no promise of the client is rejected: what a call returns at once and
\* what a fetch delivers to the calls that await it is a url or null
C9_NeverRejected ==
    /\ \A f \in FetchIds :
          /\ fetches[f].value \in Urls \cup {NULL, PENDING}
          /\ fetches[f].result \in Urls \cup {NULL, PENDING}
          /\ fetches[f].state = "settled" => fetches[f].result \in Urls \cup {NULL}
    /\ lastCall.kind \in {"invalid", "hit", "delivered"}
          => lastCall.result \in Urls \cup {NULL}
    /\ lastCall.kind \in {"coalesced", "started"} => lastCall.result = PENDING

\* a request that failed without a response delivered null to the call that
\* started it and to the call that joined it
C9_Witness ==
    /\ lastCall.kind = "delivered"
    /\ lastCall.callers = 2
    /\ lastCall.result = NULL
    /\ fetches[lastCall.fetch].response.status = 0

\* C10: the .finally callback of a fetch removes the pending request of its
\* key whatever the fetch returned, and it runs once the fetch has returned
C10_PendingEntryIsRemoved ==
    /\ [][\A f \in FetchIds :
             (fetches[f].state = "fetched" /\ fetches'[f].state = "settled")
             => fetches[f].key \notin DOMAIN pendingRequests']_vars
    /\ \A key \in Keys :
          (\E f \in FetchIds : /\ fetches[f].state = "fetched"
                               /\ fetches[f].key = key
                               /\ key \in DOMAIN pendingRequests)
          ~> (key \notin DOMAIN pendingRequests)

\* the cleanup of a request that ended in an error has run and the key has
\* no pending request
C10_Witness ==
    /\ lastCall.kind = "delivered"
    /\ lastCall.result = NULL
    /\ fetches[lastCall.fetch].response.status = 500
    /\ lastCall.key \notin DOMAIN pendingRequests

\* a response with status 200 and a string imageUrl
IsSuccess(response) == response.status = 200 /\ response.hasUrl

\* the original C11: a 200 with imageUrl u makes the fetch return u, puts
\* the entry [u, now] under the key and leaves the whole cache in
\* localStorage
C11_Original ==
    [][\A f \in FetchIds :
          (/\ fetches[f].state = "inflight"
           /\ fetches'[f].state = "fetched"
           /\ IsSuccess(fetches'[f].response))
          => /\ avatarCache'[fetches[f].key].url = fetches'[f].response.imageUrl
             /\ storage'.kind = "json"
             /\ JsonParse(storage'.members) = avatarCache']_vars

\* C11: a 200 with imageUrl u makes the fetch return u and deliver u to its
\* callers, puts the entry [u, now] under the key in place of any earlier
\* one and leaves the other entries alone, and the whole cache is written to
\* localStorage unless setItem throws, when the item stays as it was
C11_SuccessIsCachedAndSaved ==
    [][\A f \in FetchIds :
          /\ (/\ fetches[f].state = "inflight"
              /\ fetches'[f].state = "fetched"
              /\ IsSuccess(fetches'[f].response))
             => LET key == fetches[f].key
                    u == fetches'[f].response.imageUrl
                IN /\ fetches'[f].value = u
                   /\ DOMAIN avatarCache' = DOMAIN avatarCache \cup {key}
                   /\ avatarCache'[key] = [url |-> u, timestamp |-> now]
                   /\ \A other \in DOMAIN avatarCache \ {key} :
                         avatarCache'[other] = avatarCache[other]
                   /\ IF Cardinality(DOMAIN avatarCache') > quota
                      THEN storage' = storage
                      ELSE /\ storage'.kind = "json"
                           /\ JsonParse(storage'.members) = avatarCache'
          /\ (/\ fetches[f].state = "fetched"
              /\ fetches'[f].state = "settled"
              /\ IsSuccess(fetches[f].response))
             => /\ lastCall'.result = fetches[f].response.imageUrl
                /\ fetches'[f].result = fetches[f].response.imageUrl]_vars

\* a request delivered its url, and the entry it wrote in place of the
\* key's other url is in the cache and in localStorage
C11_Witness ==
    /\ lastCall.kind = "delivered"
    /\ lastCall.result = "u2"
    /\ lastCall.key = <<"7">>
    /\ avatarCache[lastCall.key] = [url |-> "u2", timestamp |-> now]
    /\ storage.kind = "json"
    /\ JsonParse(storage.members) = avatarCache
    /\ Cardinality(DOMAIN avatarCache) = 2

\* C12: clearAvatarCache with an id removes the entry under String(id) and
\* leaves every other entry as it was; without an id it empties the cache
C12_ClearRemovesOnlyItsKey ==
    [][\A userId \in ClearArgs :
          ClearAvatarCache(userId)
          => IF userId # JsUndefined
             THEN /\ DOMAIN avatarCache'
                        = DOMAIN avatarCache \ {ToJsString(userId)}
                  /\ \A other \in DOMAIN avatarCache' :
                        avatarCache'[other] = avatarCache[other]
             ELSE DOMAIN avatarCache' = {}]_vars

\* clearAvatarCache(5) dropped the valid entry of key 5 and the entry of
\* key 7 is still cached
C12_Witness ==
    /\ lastCall.kind = "clear"
    /\ lastCall.key = <<"5">>
    /\ lastCall.result \in Urls
    /\ DOMAIN avatarCache = {<<"7">>}

\* C13: clearAvatarCache, with or without an id, leaves the pending
\* requests as they were: the request in flight stays registered and stays
\* in flight, with every call that awaits it
C13_ClearKeepsPendingRequests ==
    [][\A userId \in ClearArgs :
          ClearAvatarCache(userId)
          => /\ pendingRequests' = pendingRequests
             /\ fetches' = fetches
             /\ \A key \in DOMAIN pendingRequests :
                   /\ fetches'[pendingRequests'[key]].state = "inflight"
                   /\ fetches'[pendingRequests'[key]].callers >= 1]_vars

\* the whole cache was cleared while the requests of both keys were in
\* flight, one of them awaited by two calls
C13_Witness ==
    /\ lastCall.kind = "clear"
    /\ lastCall.key = <<>>
    /\ DOMAIN pendingRequests = Keys
    /\ \A key \in Keys : fetches[pendingRequests[key]].state = "inflight"
    /\ \E key \in Keys : fetches[pendingRequests[key]].callers = 2

\* C14: after a successful settlement and after a clearAvatarCache call,
\* when setItem does not throw, the text in localStorage is that of an
\* object with exactly the keys, urls and timestamps of the cache
C14_StorageMirrorsCache ==
    [][((\/ \E f \in FetchIds : /\ fetches[f].state = "inflight"
                                /\ fetches'[f].state = "fetched"
                                /\ IsSuccess(fetches'[f].response)
         \/ lastCall'.kind = "clear")
        /\ Cardinality(DOMAIN avatarCache') <= quota)
       => /\ storage'.kind = "json"
          /\ Len(storage'.members) = Cardinality(DOMAIN avatarCache')
          /\ \A i \in 1..Len(storage'.members) :
                LET member == storage'.members[i] IN
                /\ member.key \in DOMAIN avatarCache'
                /\ member.url = avatarCache'[member.key].url
                /\ member.timestamp = avatarCache'[member.key].timestamp
          /\ \A key \in DOMAIN avatarCache' :
                \E i \in 1..Len(storage'.members) :
                    storage'.members[i].key = key]_vars

\* clearAvatarCache('7') left the expired entry of key 5 in the cache, and
\* localStorage holds that entry
C14_Witness ==
    /\ lastCall.kind = "clear"
    /\ lastCall.key = <<"7">>
    /\ DOMAIN avatarCache = {<<"5">>}
    /\ now - avatarCache[<<"5">>].timestamp >= cacheExpirationTime
    /\ storage = JsonItem(<<[key |-> <<"5">>,
                             url |-> avatarCache[<<"5">>].url,
                             timestamp |-> avatarCache[<<"5">>].timestamp]>>)

\* the state CACHED of a key: the cache holds an entry for it that is
\* younger than the expiration time
Cached(key) ==
    /\ key \in DOMAIN avatarCache
    /\ now - avatarCache[key].timestamp < cacheExpirationTime

\* C15: per key, an entry is written only by the successful settlement of
\* the key's pending request, a request is started only when the key has no
\* valid entry and no pending request, and a valid entry stops being valid
\* only when time passes or clearAvatarCache is called
C15_KeyStateMachine ==
    [][\A key \in Keys :
          /\ (/\ key \in DOMAIN avatarCache'
              /\ (key \in DOMAIN avatarCache
                     => avatarCache'[key] # avatarCache[key]))
             => /\ key \in DOMAIN pendingRequests
                /\ fetches[pendingRequests[key]].key = key
                /\ fetches[pendingRequests[key]].state = "inflight"
                /\ fetches'[pendingRequests[key]].state = "fetched"
                /\ IsSuccess(fetches'[pendingRequests[key]].response)
          /\ Sent(key) # {}
             => /\ ~Cached(key)
                /\ key \notin DOMAIN pendingRequests
                /\ key \in DOMAIN pendingRequests'
                /\ Sent(key) = {pendingRequests'[key]}
          /\ (Cached(key) /\ ~Cached(key)')
             => \/ now' > now
                \/ lastCall'.kind = "clear" /\ lastCall'.key \in {key, <<>>}
          /\ (key \in DOMAIN pendingRequests /\ key \notin DOMAIN pendingRequests')
             => /\ fetches[pendingRequests[key]].state = "fetched"
                /\ fetches'[pendingRequests[key]].state = "settled"
                /\ Cached(key)'
                      <=> IsSuccess(fetches[pendingRequests[key]].response)]_vars

\* key 7, cached at construction, has expired, and the request started for
\* it after that has delivered a url that is now its valid entry
C15_Witness ==
    /\ lastCall.kind = "delivered"
    /\ lastCall.key = <<"7">>
    /\ lastCall.result \in Urls
    /\ now > StartTime
    /\ Cached(<<"7">>)
    /\ avatarCache[<<"7">>].url = lastCall.result
    /\ <<"7">> \notin DOMAIN pendingRequests

\* C16: no step takes a started request back or drops a call that awaits
\* it, and, the backend answering every request, every request in flight
\* comes to deliver a url or null to the calls that await it
C16_StartedRequestCompletes ==
    /\ [][\A f \in FetchIds :
             /\ fetches[f].state = "inflight"
                => /\ fetches'[f].state \in {"inflight", "fetched"}
                   /\ fetches'[f].key = fetches[f].key
                   /\ fetches'[f].callers >= fetches[f].callers
             /\ fetches[f].state = "fetched"
                => \/ fetches'[f] = fetches[f]
                   \/ /\ fetches'[f].state = "settled"
                      /\ lastCall'.kind = "delivered"
                      /\ lastCall'.callers = fetches[f].callers]_vars
    /\ \A key \in Keys :
          (key \in DOMAIN pendingRequests)
          ~> (/\ key \notin DOMAIN pendingRequests
              /\ lastCall.kind = "delivered"
              /\ lastCall.key = key
              /\ lastCall.result \in Urls \cup {NULL})

\* a request that was in flight when the whole cache was cleared has
\* delivered its url to the two calls that awaited it
C16_Witness ==
    /\ lastCall.kind = "delivered"
    /\ lastCall.callers = 2
    /\ lastCall.result \in Urls
    /\ lastCall.key = <<"7">>
    /\ now = StartTime
    /\ <<"7">> \in DOMAIN avatarCache

\* C17: when the constructor returns, the cache holds exactly the members of
\* the stored object whose age is below the expiration time, with the
\* timestamps they were stored with; after that no step reads localStorage:
\* an entry appears or changes in the cache only when the key's own request
\* settles with a url, whatever localStorage holds
C17_CacheLoadedOnceAtConstruction ==
    /\ \A key \in Keys :
          key \in DOMAIN avatarCache
          <=> /\ storage.kind = "json"
              /\ \E i \in 1..Len(storage.members) :
                    /\ storage.members[i].key = key
                    /\ now - storage.members[i].timestamp < cacheExpirationTime
    /\ \A key \in DOMAIN avatarCache :
          \E i \in 1..Len(storage.members) :
              /\ storage.members[i].key = key
              /\ storage.members[i].url = avatarCache[key].url
              /\ storage.members[i].timestamp = avatarCache[key].timestamp
    /\ [][\A key \in DOMAIN avatarCache' :
             (key \in DOMAIN avatarCache => avatarCache'[key] # avatarCache[key])
             => \E f \in FetchIds :
                   /\ fetches[f].key = key
                   /\ fetches[f].state = "inflight"
                   /\ fetches'[f].state = "fetched"
                   /\ avatarCache'[key] = [url |-> fetches'[f].response.imageUrl,
                                           timestamp |-> now]]_vars

\* the constructor has loaded, of the two stored entries, the one of key 7
\* and not the one of key 5, whose age is the expiration time
C17_Witness ==
    /\ lastCall = NoCall
    /\ \A f \in FetchIds : fetches[f] = NoFetch
    /\ now = StartTime
    /\ storage.kind = "json"
    /\ Len(storage.members) = 2
    /\ DOMAIN avatarCache = {<<"7">>}
    /\ avatarCache[<<"7">>] = [url |-> "u1", timestamp |-> StartTime]

\* C18: of the steps of a resolution, only the settlement with a url writes
\* localStorage: a refused id, a cache hit, a joined and a started request,
\* a settlement with 404 or another error and the delivery leave it alone
C18_StorageWrittenOnlyOnSuccess ==
    [][/\ lastCall'.kind \in {"invalid", "hit", "coalesced", "started",
                              "delivered"}
          => storage' = storage
       /\ \A f \in FetchIds :
             (/\ fetches[f].state = "inflight"
              /\ fetches'[f].state = "fetched"
              /\ ~IsSuccess(fetches'[f].response))
             => storage' = storage
       /\ storage' # storage
          => \/ lastCall'.kind = "clear"
             \/ \E f \in FetchIds :
                   /\ fetches[f].state = "inflight"
                   /\ fetches'[f].state = "fetched"
                   /\ IsSuccess(fetches'[f].response)]_vars

\* a request answered 404 has delivered null and localStorage, which has
\* room, still has no item
C18_Witness ==
    /\ lastCall.kind = "delivered"
    /\ lastCall.result = NULL
    /\ fetches[lastCall.fetch].response.status = 404
    /\ quota = 2
    /\ storage = NoItem

\* C19: a failure of localStorage is swallowed.  A client constructed on an
\* item that cannot be parsed starts with an empty cache; a settlement with
\* a url whose setItem throws still returns the url and keeps the entry, and
\* a call for a key with a valid entry is answered from the cache whatever
\* localStorage holds; a clearAvatarCache whose setItem throws still removes
\* its entries
C19_StorageFailureIsSwallowed ==
    /\ storage.kind # "json" => avatarCache = EmptyMap
    /\ [][/\ \A f \in FetchIds :
                (/\ fetches[f].state = "inflight"
                 /\ fetches'[f].state = "fetched"
                 /\ IsSuccess(fetches'[f].response)
                 /\ Cardinality(DOMAIN avatarCache') > quota)
                => /\ fetches'[f].value = fetches'[f].response.imageUrl
                   /\ avatarCache'[fetches[f].key]
                         = [url |-> fetches'[f].response.imageUrl,
                            timestamp |-> now]
          /\ \A userId \in ValidIds :
                (/\ Cached(ToJsString(userId))
                 /\ storage # JsonStringify(avatarCache)
                 /\ GetAvatarHeadshotUrl(userId))
                => /\ lastCall'.kind = "hit"
                   /\ lastCall'.result = avatarCache[ToJsString(userId)].url
          /\ \A userId \in ClearArgs :
                (/\ Cardinality(DOMAIN CacheAfterClear(userId)) > quota
                 /\ ClearAvatarCache(userId))
                => /\ userId # JsUndefined
                      => ToJsString(userId) \notin DOMAIN avatarCache'
                   /\ userId = JsUndefined => DOMAIN avatarCache' = {}]_vars

\* the client was constructed on a corrupt item, localStorage has no room,
\* and a call was answered from the cache with the url a request had
\* returned
C19_Witness ==
    /\ storage.kind = "corrupt"
    /\ quota = 0
    /\ lastCall.kind = "hit"
    /\ lastCall.result \in Urls

\* C20: a request that has been started and whose promise has not settled is
\* registered in the pending requests under its key, so no call finds the
\* key without a pending request while the request is in flight
C20_UnsettledRequestIsRegistered ==
    \A f \in FetchIds :
        fetches[f].state \in {"inflight", "fetched"}
        => /\ fetches[f].key \in DOMAIN pendingRequests
           /\ pendingRequests[fetches[f].key] = f

\* a call has just started the request of key 5, which is registered, while
\* the request of key 7 is in flight and registered
C20_Witness ==
    /\ lastCall.kind = "started"
    /\ lastCall.key = <<"5">>
    /\ pendingRequests[<<"5">>] = lastCall.fetch
    /\ fetches[lastCall.fetch].callers = 1
    /\ <<"7">> \in DOMAIN pendingRequests
    /\ fetches[pendingRequests[<<"7">>]].state = "inflight"

\* an entry of the key is in the cache and has reached the expiration time
Expired(key) ==
    /\ key \in DOMAIN avatarCache
    /\ now - avatarCache[key].timestamp >= cacheExpirationTime

\* C21: an expired entry stays in the cache as it is until the key's
\* request settles with a url, which replaces it, or clearAvatarCache
\* removes it: time, calls, and settlements with 404 or an error leave it
\* alone; and no call is answered with it
C21_ExpiryIsLazy ==
    [][\A key \in Keys :
          Expired(key)
          => /\ key \notin DOMAIN avatarCache'
                => lastCall'.kind = "clear" /\ lastCall'.key \in {key, <<>>}
             /\ (key \in DOMAIN avatarCache'
                 /\ avatarCache'[key] # avatarCache[key])
                => \E f \in FetchIds :
                      /\ fetches[f].key = key
                      /\ fetches[f].state = "inflight"
                      /\ fetches'[f].state = "fetched"
                      /\ IsSuccess(fetches'[f].response)
             /\ \A f \in FetchIds :
                   (/\ fetches[f].key = key
                    /\ fetches[f].state = "inflight"
                    /\ fetches'[f].state = "fetched"
                    /\ ~IsSuccess(fetches'[f].response))
                   => /\ avatarCache' = avatarCache
                      /\ Expired(key)'
             /\ \A userId \in ValidIds :
                   (ToJsString(userId) = key /\ GetAvatarHeadshotUrl(userId))
                   => /\ lastCall'.kind \in {"started", "coalesced"}
                      /\ lastCall'.result = PENDING
                      /\ avatarCache' = avatarCache]_vars

\* the refetch of key 7, whose entry loaded by the constructor has expired,
\* ended in a 404; the entry is still in the cache and the next call for
\* the key has started a request
C21_Witness ==
    /\ lastCall.kind = "started"
    /\ lastCall.key = <<"7">>
    /\ lastCall.retryOf = 404
    /\ Expired(<<"7">>)
    /\ avatarCache[<<"7">>] = [url |-> "u1", timestamp |-> StartTime]

\* C23: a backend request in flight for a key and a valid entry of the key
\* never coexist
C23_NoRequestForCachedKey ==
    \A key \in Keys : Outstanding(key) # {} => ~Cached(key)

\* a request is in flight for key 7 while the entry of the key, expired, is
\* in the cache and key 5 has a valid entry and no request
C23_Witness ==
    /\ Outstanding(<<"7">>) # {}
    /\ Expired(<<"7">>)
    /\ Cached(<<"5">>)
    /\ Outstanding(<<"5">>) = {}

\* C22: the cache key is String(userId): a call with the number 5 and a call
\* with the string '5' work on the key '5' alike, answered from its valid
\* entry or joined to its pending request, and clearAvatarCache(5) removes
\* the entry of that key
C22_NumberAndStringShareKey ==
    /\ ToJsString(JsNum(5)) = ToJsString(JsStr(<<"5">>))
    /\ [][LET key == <<"5">> IN
          /\ \A userId \in {JsNum(5), JsStr(<<"5">>)} :
                (/\ lastCall'.kind \in {"invalid", "hit", "coalesced", "started"}
                 /\ lastCall'.numeric = (userId.t = "number")
                 /\ GetAvatarHeadshotUrl(userId))
                => /\ lastCall'.key = key
                   /\ Cached(key)
                      => /\ lastCall'.kind = "hit"
                         /\ lastCall'.result = avatarCache[key].url
                         /\ Sent(key) = {}
                   /\ (~Cached(key) /\ key \in DOMAIN pendingRequests)
                      => /\ lastCall'.kind = "coalesced"
                         /\ lastCall'.fetch = pendingRequests[key]
                         /\ Sent(key) = {}
                   /\ (~Cached(key) /\ key \notin DOMAIN pendingRequests)
                      => /\ lastCall'.kind = "started"
                         /\ key \in DOMAIN pendingRequests'
          /\ \A userId \in {JsNum(5), JsStr(<<"5">>)} :
                (/\ lastCall'.kind = "clear"
                 /\ lastCall'.numeric = (userId.t = "number")
                 /\ ClearAvatarCache(userId))
                => /\ key \notin DOMAIN avatarCache'
                   /\ lastCall'.key = key]_vars

\* a call with the number 5 has joined the pending request of the key '5'
\* as its second caller
C22_Witness ==
    /\ lastCall.kind = "coalesced"
    /\ lastCall.numeric
    /\ lastCall.key = <<"5">>
    /\ pendingRequests[<<"5">>] = lastCall.fetch
    /\ fetches[lastCall.fetch].callers = 2

\* the original C24: the successful settlement of a request during whose
\* flight its key was cleared leaves the whole cache, with the new entry, in
\* localStorage
C24_Original ==
    [][\A f \in FetchIds :
          (/\ fetches[f].key \in clearedInFlight
           /\ fetches[f].state = "inflight"
           /\ fetches'[f].state = "fetched"
           /\ IsSuccess(fetches'[f].response))
          => /\ Cached(fetches[f].key)'
             /\ storage'.kind = "json"
             /\ JsonParse(storage'.members) = avatarCache']_vars

\* C24: clearAvatarCache called while the request of a key is in flight
\* leaves the request in flight; when the request then gets a url, the
\* settlement writes the entry of the key and, unless setItem throws, the
\* whole cache to localStorage, the key has a valid entry when the result is
\* delivered, and a call for a key with a valid entry is answered from the
\* cache without a backend request
C24_ClearInFlightThenSuccess ==
    [][/\ \A key \in Keys :
             (/\ Outstanding(key) # {}
              /\ lastCall'.kind = "clear"
              /\ lastCall'.key \in {key, <<>>})
             => /\ Outstanding(key)' = Outstanding(key)
                /\ key \in clearedInFlight'
                /\ key \notin DOMAIN avatarCache'
       /\ \A f \in FetchIds :
             LET key == fetches[f].key IN
             /\ (/\ key \in clearedInFlight
                 /\ fetches[f].state = "inflight"
                 /\ fetches'[f].state = "fetched"
                 /\ IsSuccess(fetches'[f].response))
                => /\ avatarCache'[key]
                         = [url |-> fetches'[f].response.imageUrl,
                            timestamp |-> now]
                   /\ Cached(key)'
                   /\ IF Cardinality(DOMAIN avatarCache') > quota
                      THEN storage' = storage
                      ELSE /\ storage'.kind = "json"
                           /\ JsonParse(storage'.members) = avatarCache'
             /\ (/\ key \in clearedInFlight
                 /\ fetches[f].state = "fetched"
                 /\ fetches'[f].state = "settled"
                 /\ IsSuccess(fetches[f].response))
                => /\ lastCall'.afterClear
                   /\ lastCall'.result = fetches[f].response.imageUrl
                   /\ Cached(key)'
                   /\ avatarCache'[key].url = lastCall'.result
       /\ \A userId \in ValidIds :
             (Cached(ToJsString(userId)) /\ GetAvatarHeadshotUrl(userId))
             => /\ lastCall'.kind = "hit"
                /\ lastCall'.result = avatarCache[ToJsString(userId)].url
                /\ fetches' = fetches]_vars

\* the request of key 7, during whose flight the key was cleared, has
\* delivered a url, which is the key's valid entry in the cache and in
\* localStorage
C24_Witness ==
    /\ lastCall.kind = "delivered"
    /\ lastCall.afterClear
    /\ lastCall.key = <<"7">>
    /\ lastCall.result \in Urls
    /\ Cached(<<"7">>)
    /\ avatarCache[<<"7">>].url = lastCall.result
    /\ storage.kind = "json"
    /\ JsonParse(storage.members) = avatarCache

(***************************************************************************)
(* The useSentiment hook.  analyzeSentiment posts the message; on the      *)
(* response it stores the result, sets moderationPending and starts        *)
(* pollModerationStatus, whose closure holds the message id and the        *)
(* counter attempts.  A poll is                                            *)
(*   "timer"     setTimeout(poll, ..) is pending,                          *)
(*   "checking"  poll awaits checkModerationStatus,                        *)
(*   "done"      poll has returned without scheduling itself again.        *)
(* The backend moderates each message it received in the background and    *)
(* answers a status check with what it has decided by then.                *)
(***************************************************************************)
\* const maxAttempts = 10
maxAttempts == 10

\* the message argument of analyzeSentiment
Messages == {<<>>, <<" ">>, <<"h", "i">>}

\* what POST /analyze ends with: an exception, a response that echoes the
\* message id of the request, or a response without a message id
AnalyzeOutcomes == {"throws", "message_id", "no message_id"}

\* what the backend's moderation decides
ModerationActions == {"BAN", "WARNING"}

\* what checkModerationStatus ends with: an exception, null, or the message
StatusOutcomes == {"throws", "null", "message"}

\* ['DELETE_MESSAGE', 'BAN', 'KICK'].includes(action)
Blocks(action) == action \in {"DELETE_MESSAGE", "BAN", "KICK"}

\* sentimentResult, built from the response data
SentimentResult(message_id) ==
    [null |-> FALSE, message_id |-> message_id, moderation_passed |-> TRUE,
     blocked |-> FALSE, moderation_action |-> UNDEFINED]

\* analyzeSentiment up to its await
AnalyzeSentiment(message) ==
    /\ IF Trim(message) = <<>>
       THEN /\ hookError' = "Please enter a message to analyze"
            /\ UNCHANGED <<isLoading, hookResult, analysing, nextMessageId>>
       ELSE /\ nextMessageId <= MaxMessages
            /\ isLoading' = TRUE
            /\ hookError' = NULL
            /\ hookResult' = NullResult
            /\ analysing' = analysing \cup {nextMessageId}
            /\ nextMessageId' = nextMessageId + 1
    /\ UNCHANGED <<moderationPending, polls, moderation>>
    /\ UNCHANGED <<clientVars, webhookVars, queueVars>>

\* pollModerationStatus(messageId): attempts = 0 and setTimeout(poll, 2000)
PollModerationStatus(messageId) ==
    MapSet(polls, messageId, [state |-> "timer", attempts |-> 0])

\* analyzeSentiment from its await on: the try block after the response, the
\* catch block and the finally block
AnalyzeSettles(m, outcome) ==
    /\ m \in analysing
    /\ analysing' = analysing \ {m}
    /\ IF outcome = "throws"
       THEN /\ hookError' = "Failed to analyze sentiment. Please try again."
            /\ UNCHANGED <<hookResult, moderationPending, polls>>
       ELSE LET message_id == IF outcome = "message_id" THEN m
                              ELSE NoMessageId
            IN /\ hookResult' = SentimentResult(message_id)
               /\ moderationPending' = TRUE
               /\ polls' = IF message_id # NoMessageId
                           THEN PollModerationStatus(message_id)
                           ELSE polls
               /\ UNCHANGED hookError
    /\ isLoading' = FALSE
    /\ UNCHANGED <<moderation, nextMessageId>>
    /\ UNCHANGED <<clientVars, webhookVars, queueVars>>

\* the backend's background moderation of a message it has received decides
Moderate(m, action) ==
    /\ m < nextMessageId
    /\ m \notin DOMAIN moderation
    /\ moderation' = MapSet(moderation, m, action)
    /\ UNCHANGED <<isLoading, hookResult, hookError, moderationPending,
                   analysing, polls, nextMessageId>>
    /\ UNCHANGED <<clientVars, webhookVars, queueVars>>

\* message.moderation_action of the message checkModerationStatus returns
ModerationAction(m) ==
    IF m \in DOMAIN moderation THEN moderation[m] ELSE UNDEFINED

\* the timer of a poll fires: poll() up to its await
PollFires(m) ==
    /\ m \in DOMAIN polls
    /\ polls[m].state = "timer"
    /\ polls' = [polls EXCEPT ![m].state = "checking"]
    /\ UNCHANGED <<isLoading, hookResult, hookError, moderationPending,
                   analysing, moderation, nextMessageId>>
    /\ UNCHANGED <<clientVars, webhookVars, queueVars>>

\* setResult(prev => prev ? {...prev, ..} : null) of a poll that ends
ResultAfterPoll(prev, moderation_action) ==
    IF prev.null THEN NullResult
    ELSE IF moderation_action # UNDEFINED
    THEN [prev EXCEPT !.moderation_passed = ~Blocks(moderation_action),
                      !.blocked = Blocks(moderation_action),
                      !.moderation_action = moderation_action]
    ELSE [prev EXCEPT !.moderation_passed = TRUE, !.blocked = FALSE]

\* poll() from its await on
StatusSettles(m, outcome) ==
    /\ m \in DOMAIN polls
    /\ polls[m].state = "checking"
    /\ LET attempts == polls[m].attempts
           moderation_action == ModerationAction(m)
       IN IF outcome = "throws"
          THEN /\ moderationPending' = FALSE
               /\ polls' = [polls EXCEPT ![m].state = "done"]
               /\ UNCHANGED hookResult
          ELSE IF /\ outcome = "message"
                  /\ (moderation_action # UNDEFINED \/ attempts >= maxAttempts)
          THEN /\ moderationPending' = FALSE
               /\ hookResult' = ResultAfterPoll(hookResult, moderation_action)
               /\ polls' = [polls EXCEPT ![m].state = "done"]
          ELSE /\ polls' = [polls EXCEPT ![m] =
                               [state |-> IF attempts + 1 < maxAttempts
                                          THEN "timer" ELSE "done",
                                attempts |-> attempts + 1]]
               /\ moderationPending' = IF attempts + 1 < maxAttempts
                                       THEN moderationPending ELSE FALSE
               /\ UNCHANGED hookResult
    /\ UNCHANGED <<isLoading, hookError, analysing, moderation, nextMessageId>>
    /\ UNCHANGED <<clientVars, webhookVars, queueVars>>

HookNext ==
    \/ \E message \in Messages : AnalyzeSentiment(message)
    \/ \E m \in MessageIds, outcome \in AnalyzeOutcomes :
          AnalyzeSettles(m, outcome)
    \/ \E m \in MessageIds, action \in ModerationActions : Moderate(m, action)
    \/ \E m \in MessageIds : PollFires(m)
    \/ \E m \in MessageIds, outcome \in StatusOutcomes :
          StatusSettles(m, outcome)

\* the hook is explored with the avatar client at rest
HookInit == Init /\ storage = NoItem /\ quota = 2

HookSpec == HookInit /\ [][HookNext]_vars

\* every request the hook sends is answered and every timer it sets fires
HookLiveSpec ==
    /\ HookSpec
    /\ \A m \in MessageIds :
          /\ WF_vars(\E outcome \in AnalyzeOutcomes : AnalyzeSettles(m, outcome))
          /\ WF_vars(PollFires(m))
          /\ WF_vars(\E outcome \in StatusOutcomes : StatusSettles(m, outcome))

\* C25: in the useSentiment hook, after every analyzeSentiment call that
\* receives a successful response, moderationPending, set to true on that
\* response, eventually returns to false
C25_Original == moderationPending ~> ~moderationPending

\* C26: in every reachable state the moderation_action and blocked fields
\* of result belong to the message whose message_id the result holds: they
\* are the defaults, or what the backend decided for that message
C26_Original ==
    ~hookResult.null
    => /\ hookResult.moderation_action # UNDEFINED
          => /\ hookResult.message_id \in MessageIds
             /\ hookResult.moderation_action
                   = ModerationAction(hookResult.message_id)
       /\ hookResult.blocked
          => /\ hookResult.message_id \in MessageIds
             /\ Blocks(ModerationAction(hookResult.message_id))

(***************************************************************************)
(* The Roblox webhook.  FetchFromMessage posts a player's chat message to  *)
(* the sentiment endpoint and acts on the moderation_action of the decoded *)
(* response.  A string the code inspects is a sequence of characters; a    *)
(* player that is kicked leaves the game with the message of the kick.     *)
(***************************************************************************)
NIL == "nil"               \* an absent field of a Lua table

UpperChars == <<"A", "B", "C", "D", "E", "F", "G", "H", "I", "J", "K", "L",
                "M", "N", "O", "P", "Q", "R", "S", "T", "U", "V", "W", "X",
                "Y", "Z">>

LowerChars == <<"a", "b", "c", "d", "e", "f", "g", "h", "i", "j", "k", "l",
                "m", "n", "o", "p", "q", "r", "s", "t", "u", "v", "w", "x",
                "y", "z">>

\* string.lower
Lower(chars) ==
    [i \in 1..Len(chars) |->
        IF \E j \in 1..26 : UpperChars[j] = chars[i]
        THEN LowerChars[CHOOSE j \in 1..26 : UpperChars[j] = chars[i]]
        ELSE chars[i]]

\* responseData.moderation_action when the response has none
NilAction == <<NIL>>

\* responseData.moderation_action as the endpoint may send it
ActionNames ==
    { <<"k", "i", "c", "k">>, <<"K", "I", "C", "K">>, <<"K", "i", "c", "k">>,
      <<"b", "a", "n">>, <<"B", "A", "N">>,
      <<"w", "a", "r", "n">>, <<"W", "A", "R", "N">>,
      <<"w", "a", "r", "n", "i", "n", "g">>,
      <<"W", "A", "R", "N", "I", "N", "G">>,
      <<"a", "p", "p", "r", "o", "v", "e">> }

\* responseData.moderation_reason
Reasons == {NIL, "spam"}

\* the decoded body of a response
ResponseData ==
    [moderation_action : ActionNames \cup {NilAction},
     moderation_reason : Reasons]

\* what HttpService:PostAsync ends with: an error, a body that is no JSON,
\* or a JSON body
PostOutcomes == {"fails", "invalid", "json"}

\* the table returned when the post has failed
FallbackResponse == [sentiment_score |-> 5, emotion |-> 1]

\* nothing is returned: JSONDecode has raised
NothingReturned == [raised |-> TRUE]

\* the branch of the if chain on action that the response takes
Branch(responseData) ==
    IF responseData.moderation_action = NilAction THEN "none"
    ELSE LET action == Lower(responseData.moderation_action)
         IN IF action = <<"k", "i", "c", "k">> THEN "kick"
            ELSE IF action = <<"w", "a", "r", "n", "i", "n", "g">>
            THEN "warning"
            ELSE IF action = <<"b", "a", "n">> THEN "ban"
            ELSE "none"

\* responseData.moderation_reason or "Inappropriate behavior"
ReasonOf(responseData) ==
    IF responseData.moderation_reason # NIL
    THEN responseData.moderation_reason
    ELSE "Inappropriate behavior"

\* plr:Kick("KICKED: " .. reason ..) and plr:Kick("BANNED: " .. reason ..)
KickOf(responseData) ==
    CASE Branch(responseData) = "kick" ->
            [kind |-> "KICKED", reason |-> ReasonOf(responseData)]
      [] Branch(responseData) = "ban" ->
            [kind |-> "BANNED", reason |-> ReasonOf(responseData)]
      [] OTHER -> NoKick

\* pcall(PostAsync) has succeeded
PostSucceeded_Always(post) == TRUE

PostSucceeded(post) == post # "fails"

FetchFromMessage(plr, post, responseData) ==
    /\ plr \in inGame
    /\ IF PostSucceeded(post) /\ post = "json"
       THEN /\ kickMessage' = IF KickOf(responseData) # NoKick
                              THEN MapSet(kickMessage, plr,
                                          KickOf(responseData))
                              ELSE kickMessage
            /\ inGame' = IF KickOf(responseData) # NoKick
                         THEN inGame \ {plr} ELSE inGame
            /\ warned' = IF Branch(responseData) = "warning"
                         THEN warned \cup {plr} ELSE warned
            /\ lastFetch' = [kind |-> "call", plr |-> plr, success |-> TRUE,
                             decoded |-> TRUE,
                             action |-> responseData.moderation_action,
                             reason |-> responseData.moderation_reason,
                             returned |-> responseData, raised |-> FALSE]
       ELSE /\ UNCHANGED <<inGame, kickMessage, warned>>
            /\ lastFetch' = [kind |-> "call", plr |-> plr,
                             success |-> PostSucceeded(post),
                             decoded |-> FALSE, action |-> NilAction,
                             reason |-> NIL,
                             returned |-> IF PostSucceeded(post)
                                          THEN NothingReturned
                                          ELSE FallbackResponse,
                             raised |-> PostSucceeded(post)]
    /\ UNCHANGED <<clientVars, hookVars, queueVars>>

WebhookNext ==
    \E plr \in Players, post \in PostOutcomes, responseData \in ResponseData :
       FetchFromMessage(plr, post, responseData)

\* the webhook is explored with the web pages at rest
WebhookInit == Init /\ storage = NoItem /\ quota = 2

WebhookSpec == WebhookInit /\ [][WebhookNext]_vars

\* C27: for a successful response whose moderation_action is,
\* case-insensitively, kick the player is kicked, for ban the player is
\* removed with a ban message, for warn a warning is issued for the player
\* and the player is not kicked, and with no moderation_action no action is
\* taken; the decoded response is returned in every case
C27_Original ==
    [][(lastFetch'.kind = "call" /\ lastFetch'.decoded)
       => LET plr == lastFetch'.plr
              action == IF lastFetch'.action = NilAction THEN NilAction
                        ELSE Lower(lastFetch'.action)
          IN /\ action = <<"k", "i", "c", "k">>
                => /\ plr \in DOMAIN kickMessage'
                   /\ kickMessage'[plr].kind = "KICKED"
                   /\ inGame' = inGame \ {plr}
             /\ action = <<"b", "a", "n">>
                => /\ plr \in DOMAIN kickMessage'
                   /\ kickMessage'[plr].kind = "BANNED"
                   /\ inGame' = inGame \ {plr}
             /\ action = <<"w", "a", "r", "n">>
                => /\ plr \in warned'
                   /\ UNCHANGED <<inGame, kickMessage>>
             /\ action = NilAction
                => UNCHANGED <<inGame, kickMessage, warned>>
             /\ ~lastFetch'.raised
             /\ lastFetch'.returned
                   = [moderation_action |-> lastFetch'.action,
                      moderation_reason |-> lastFetch'.reason]]_vars

\* C28: when the HTTP post fails, FetchFromMessage kicks nobody, issues no
\* warning, and returns the table with sentiment_score = 5 and emotion = 1
\* instead of raising
C28_PostFailureReturnsFallback ==
    [][\A plr \in Players, responseData \in ResponseData :
          FetchFromMessage(plr, "fails", responseData)
          => /\ UNCHANGED <<inGame, kickMessage, warned>>
             /\ ~lastFetch'.raised
             /\ lastFetch'.returned = [sentiment_score |-> 5, emotion |-> 1]]_vars

\* a post has failed for player 2, after player 1 was kicked on an earlier
\* message: player 2 is still in the game and the fallback was returned
C28_Witness ==
    /\ lastFetch.kind = "call"
    /\ ~lastFetch.success
    /\ lastFetch.plr = 2
    /\ lastFetch.returned = [sentiment_score |-> 5, emotion |-> 1]
    /\ inGame = Players \ {1}
    /\ 2 \notin DOMAIN kickMessage

(***************************************************************************)
(* The moderation queue page.  fetchQueueItems loads the flagged messages  *)
(* the backend lists; handleAction sends the moderator's review of one     *)
(* message and, when the call has ended, updates the queue.  While loading *)
(* is true the page renders no queue, and the buttons of a message whose   *)
(* id is in processingActions are disabled.                                *)
(***************************************************************************)
\* a flagged message as the backend lists it; the AI gave a reason for the
\* messages with an odd id
FlaggedMessage(m) ==
    [message_id |-> m,
     moderation_reason |-> IF m % 2 = 1 THEN "toxic" ELSE UNDEFINED]

\* what getFlaggedMessages resolves with when the backend lists ids
RECURSIVE Listing(_)
Listing(ids) ==
    IF ids = {} THEN <<>>
    ELSE LET m == CHOOSE i \in ids : \A j \in ids : i <= j
         IN <<FlaggedMessage(m)>> \o Listing(ids \ {m})

\* the message ids of the queue
QueuedIds(items) == { items[i].message_id : i \in 1..Len(items) }

\* queueItems.find(item => item.message_id === messageId)
Find(items, messageId) ==
    items[CHOOSE i \in 1..Len(items) : items[i].message_id = messageId]

\* prev.filter(item => item.message_id !== messageId)
RECURSIVE Without(_, _)
Without(items, messageId) ==
    IF items = <<>> THEN <<>>
    ELSE IF Head(items).message_id = messageId
    THEN Without(Tail(items), messageId)
    ELSE <<Head(items)>> \o Without(Tail(items), messageId)

\* the buttons of a queued message
ReviewActions == {"ban", "approve"}

\* what getFlaggedMessages ends with
ListOutcomes == {"throws", "messages"}

\* what reviewMessage ends with: an exception, a result that is null or has
\* success false, or a result with success true
ReviewOutcomes == {"throws", "failure", "success"}

\* the Refresh button: fetchQueueItems up to its await
FetchQueueItems ==
    /\ ~loading
    /\ loading' = TRUE
    /\ queueError' = NULL
    /\ UNCHANGED <<queueItems, processingActions, successMessage,
                   successTimers, reviews, flagged>>
    /\ UNCHANGED <<clientVars, hookVars, webhookVars>>

\* fetchQueueItems from its await on
FetchQueueSettles(outcome) ==
    /\ loading
    /\ IF outcome = "messages"
       THEN /\ queueItems' = Listing(flagged)
            /\ UNCHANGED queueError
       ELSE /\ queueError' = "Failed to load queued messages"
            /\ UNCHANGED queueItems
    /\ loading' = FALSE
    /\ UNCHANGED <<processingActions, successMessage, successTimers, reviews,
                   flagged>>
    /\ UNCHANGED <<clientVars, hookVars, webhookVars>>

\* the request handleAction sends
ReviewRequest(message, action) ==
    IF action = "ban" /\ message.moderation_reason # UNDEFINED
    THEN [action |-> action, reason |-> message.moderation_reason]
    ELSE [action |-> action, reason |-> UNDEFINED]

\* a button of a queued message: handleAction up to its await
HandleAction(messageId, action) ==
    /\ ~loading
    /\ messageId \in QueuedIds(queueItems)
    /\ messageId \notin processingActions
    /\ processingActions' = processingActions \cup {messageId}
    /\ reviews' = MapSet(reviews, messageId,
                         ReviewRequest(Find(queueItems, messageId), action))
    /\ UNCHANGED <<queueItems, loading, queueError, successMessage,
                   successTimers, flagged>>
    /\ UNCHANGED <<clientVars, hookVars, webhookVars>>

\* setError of handleAction
ReviewError(action, outcome) ==
    CASE action = "ban" /\ outcome = "failure" ->
            "Failed to ban message: API returned failure"
      [] action = "ban" /\ outcome = "throws" ->
            "Failed to ban message: Unknown error"
      [] action = "approve" /\ outcome = "failure" ->
            "Failed to approve message: API returned failure"
      [] OTHER -> "Failed to approve message: Unknown error"

\* the queue when the review call has ended
QueueAfterReview_Always(messageId, outcome) == Without(queueItems, messageId)

QueueAfterReview(messageId, outcome) ==
    IF outcome = "success" THEN Without(queueItems, messageId)
    ELSE queueItems

\* handleAction from its await on: the rest of the try block, the catch
\* block and the finally block.  The backend takes a message it has
\* reviewed off its list
ReviewSettles(messageId, outcome) ==
    /\ messageId \in DOMAIN reviews
    /\ queueItems' = QueueAfterReview(messageId, outcome)
    /\ IF outcome = "success"
       THEN /\ successMessage' = reviews[messageId].action
            /\ successTimers' = successTimers + 1
            /\ flagged' = flagged \ {messageId}
            /\ UNCHANGED queueError
       ELSE /\ queueError' = ReviewError(reviews[messageId].action, outcome)
            /\ UNCHANGED <<successMessage, successTimers, flagged>>
    /\ processingActions' = processingActions \ {messageId}
    /\ reviews' = MapDelete(reviews, messageId)
    /\ UNCHANGED loading
    /\ UNCHANGED <<clientVars, hookVars, webhookVars>>

\* setTimeout(() => setSuccessMessage(null), 3000) fires
SuccessTimerFires ==
    /\ successTimers > 0
    /\ successTimers' = successTimers - 1
    /\ successMessage' = NULL
    /\ UNCHANGED <<queueItems, loading, queueError, processingActions,
                   reviews, flagged>>
    /\ UNCHANGED <<clientVars, hookVars, webhookVars>>

QueueNext ==
    \/ FetchQueueItems
    \/ \E outcome \in ListOutcomes : FetchQueueSettles(outcome)
    \/ \E messageId \in QueueIds, action \in ReviewActions :
          HandleAction(messageId, action)
    \/ \E messageId \in QueueIds, outcome \in ReviewOutcomes :
          ReviewSettles(messageId, outcome)
    \/ SuccessTimerFires

\* the page is explored with the avatar client at rest
QueueInit == Init /\ storage = NoItem /\ quota = 2

QueueSpec == QueueInit /\ [][QueueNext]_vars

\* C29: handleAction removes a message from the queue only when the review
\* call for that message has returned a success result; when the call
\* throws or returns a failure the queue is left unchanged and an error is
\* set; in both cases the id leaves processingActions when the call ends,
\* and an id is marked as processing only while its call is outstanding
C29_QueueChangesOnlyOnSuccess ==
    /\ [](\A messageId \in processingActions : messageId \in DOMAIN reviews)
    /\ [][/\ \A messageId \in QueueIds, action \in ReviewActions :
                HandleAction(messageId, action) => queueItems' = queueItems
          /\ \A messageId \in QueueIds :
                (messageId \in DOMAIN reviews /\ messageId \notin DOMAIN reviews')
                => /\ messageId \notin processingActions'
                   /\ \/ /\ ReviewSettles(messageId, "success")
                         /\ messageId \notin QueuedIds(queueItems')
                         /\ \A other \in QueuedIds(queueItems) \ {messageId} :
                               other \in QueuedIds(queueItems')
                      \/ /\ \/ ReviewSettles(messageId, "failure")
                            \/ ReviewSettles(messageId, "throws")
                         /\ queueItems' = queueItems
                         /\ queueError' # NULL]_vars

\* the review of message 1 has failed and the review of message 2 has
\* succeeded: message 1 is still queued, message 2 is not, an error is set
\* and no id is marked as processing
C29_Witness ==
    /\ QueuedIds(queueItems) = {1}
    /\ queueError = "Failed to ban message: API returned failure"
    /\ successMessage = "approve"
    /\ processingActions = {}
    /\ reviews = EmptyMap
    /\ ~loading

====
